---- MODULE Spec2Model ----
(***************************************************************************)
(* The two-phase task pipeline of conda-forge-webservices:                 *)
(*   main_run_task      (the Runner, untrusted phase)                      *)
(*   main_finalize_task (the Finalizer, trusted phase) and _push_changes   *)
(* Python's None is the record Null; a present value x is Val(x).          *)
(***************************************************************************)
EXTENDS Integers, Sequences, FiniteSets, TLC

Null == [null |-> TRUE]
Val(x) == [null |-> FALSE, v |-> x]

\* ---- bounds of the model ----
\* how many times the Finalizer is invoked on one Task Result
MaxRuns == 2
\* how many commits the contributor pushes to the PR branch meanwhile
MaxContribPushes == 1
\* how many open PRs the repository has when automerge lists them
MaxPulls == 3

\* ---- inputs ----
ValidTasks == {"rerender", "version_update", "lint"}
Tasks == ValidTasks \cup {"bogus"}
Recipes == {"a", "b"}
RequestedVersions == {Null, Val(""), Val("null"), Val("None"), Val("1.2.3")}
NewVersions == {Null, Val("2.0")}
InfoMessages == {Null, Val("info")}
RerenderMessages == {Null, Val("MNT: rerender")}
Sha == "abc123"
PrTitles == {"MNT: rerender", "fix build"}
PrUsers == {"conda-forge-admin", "contributor"}
OtherSha == "fff999"
\* the head commits of the open PRs
HeadShas == {Sha, OtherSha}

\* str.lower() on the version strings the model draws
Lower(s) == CASE s = "None" -> "none"
              [] s = "NULL" -> "null"
              [] OTHER -> s

\* partial functions from recipes to booleans (a per-recipe error map)
ErrorMaps == UNION {[d -> BOOLEAN] : d \in SUBSET Recipes}

VARIABLES
    \* ---- Runner (main_run_task) ----
    rpc,                \* position of the Runner
    task,               \* --task
    requested_version,  \* --requested-version (Null when omitted)
    input_version,      \* what update_version was called with
    version_ret,        \* what update_version returned (Null before)
    rerender_ret,       \* what rerender returned (Null before)
    rops,               \* operations the Runner performed, in order
    feedstock_dir,      \* paths of the Runner's clone that exist on disk
    prev_head,          \* head of the PR branch when the Runner cloned it
    task_data,          \* the task_data dict being filled (Null before)
    task_data_json,     \* the written task_data.json (Null when absent)
    rexit,              \* Runner exit code (-1 while running)
    \* ---- the live pull request ----
    prState, prTitle, prUser, prDraft,
    branch,             \* contributor's branch: sequence of commits
    comments,           \* pipeline comments on the PR
    statuses,           \* commit statuses set, in order
    otherChanged,       \* somebody else changed the PR since the first run
    contribPushes,
    \* ---- Finalizer (main_finalize_task) ----
    fpc,                \* position of the Finalizer
    run,                \* number of the current Finalizer invocation
    task_results,       \* the loaded (and locally updated) task_results
    pr,                 \* the PR object fetched once per run
    git_repo,           \* the Finalizer's local clone
    ops,                \* operations of the current run, in order
    pr_title_error,     \* "unbound" | "True" | "False"
    comment_push_error,
    recipes_to_lint,
    request,            \* arguments of the call of comment_and_push_if_changed
    msg,                \* the lint comment returned (Null before)
    status,
    fexit,              \* Finalizer exit code (-1 while running)
    \* ---- Automerge trigger (main_automerge) ----
    apc,                \* position of the automerge run
    pulls,              \* gh_repo.get_pulls(): the open PRs, in order
    am_i,               \* index of the PR the loop is at
    found_pr,
    pr_for_admin,       \* number of the PR handle of the admin session
    am_ops,             \* sessions created and forge calls made, in order
    merges,             \* the calls of automerge_pr, in order
    warned,             \* the "No PR Found" warning was printed
    aexit,              \* automerge exit code (-1 while running)
    \* ---- history of the PR's other actors ----
    closed_at,          \* Len(ops) when somebody closed the PR after the
                        \* current run had fetched it open (-1 otherwise)
    \* ---- team update (update_teams.update_team) ----
    tpc,                \* position of update_team
    repo_name,
    commit,             \* the commit argument (Null when omitted)
    team_name,
    recipe_file,        \* the recipe file get_recipe_contents returned
    skip,               \* number of "extra:" lines of the recipe
    configured,         \* team names passed to configure_github_team
    maintainers,        \* what configure_github_team returned
    filter_out,         \* get_filter_out_members() ({} before the call)
    t_ops,              \* forge API calls of update_team, in order
    t_comments,         \* commit comments created
    texit               \* 0 returned, 1 raised (-1 while running)

runnerVars == <<rpc, task, requested_version, input_version, version_ret,
                rerender_ret, rops,
                feedstock_dir, prev_head, task_data, task_data_json, rexit>>
prVars == <<prState, prTitle, prUser, prDraft, branch, comments, statuses,
            otherChanged, contribPushes>>
finVars == <<fpc, run, task_results, pr, git_repo, ops, pr_title_error,
             comment_push_error, recipes_to_lint, request, msg, status,
             fexit>>
amVars == <<apc, pulls, am_i, found_pr, pr_for_admin, am_ops, merges, warned,
            aexit>>
tmVars == <<tpc, repo_name, commit, team_name, recipe_file, skip, configured,
            maintainers, filter_out, t_ops, t_comments, texit>>
vars == <<runnerVars, prVars, finVars, amVars, closed_at, tmVars>>

NoRepo == [head |-> <<>>, patched |-> FALSE, committed |-> FALSE]
NoRequest == [called |-> FALSE, action |-> "", changed |-> FALSE,
              error |-> FALSE, close_pr_if_no_changes_or_errors |-> FALSE,
              info_message |-> Null]
NoPr == [state |-> "unfetched", title |-> "", user |-> ""]

\* no automerge run
AmIdle ==
    /\ apc = "idle"
    /\ pulls = <<>>
    /\ am_i = 0
    /\ found_pr = FALSE
    /\ pr_for_admin = 0
    /\ am_ops = <<>>
    /\ merges = <<>>
    /\ warned = FALSE
    /\ aexit = -1

NoMaintainers == [current_maintainers |-> {}, prev_maintainers |-> {},
                  new_conda_forge_members |-> {}]

\* no update_team call
TmIdle ==
    /\ tpc = "idle"
    /\ repo_name = ""
    /\ commit = Null
    /\ team_name = ""
    /\ recipe_file = ""
    /\ skip = 0
    /\ configured = <<>>
    /\ maintainers = NoMaintainers
    /\ filter_out = {}
    /\ t_ops = <<>>
    /\ t_comments = <<>>
    /\ texit = -1

PipelineInit ==
    /\ rpc = "start"
    /\ task \in Tasks
    /\ requested_version \in
           (IF task = "version_update" THEN RequestedVersions ELSE {Null})
    /\ input_version = Null
    /\ version_ret = Null
    /\ rerender_ret = Null
    /\ rops = <<>>
    /\ feedstock_dir = {}
    /\ prev_head = <<>>
    /\ task_data = Null
    /\ task_data_json = Null
    /\ rexit = -1
    /\ prState = "open"
    /\ prTitle \in (IF task = "rerender" THEN PrTitles ELSE {"fix build"})
    /\ prUser \in (IF task = "rerender" THEN PrUsers ELSE {"contributor"})
    /\ prDraft = TRUE
    /\ branch = <<>>
    /\ comments = <<>>
    /\ statuses = <<>>
    /\ otherChanged = FALSE
    /\ contribPushes = 0
    /\ fpc = "idle"
    /\ run = 0
    /\ task_results = Null
    /\ pr = NoPr
    /\ git_repo = NoRepo
    /\ ops = <<>>
    /\ pr_title_error = "unbound"
    /\ comment_push_error = FALSE
    /\ recipes_to_lint = {}
    /\ request = NoRequest
    /\ msg = Null
    /\ status = ""
    /\ fexit = -1
    /\ closed_at = -1

Init == PipelineInit /\ AmIdle /\ TmIdle

\* ======================= Runner: main_run_task =========================

\* lines 72-84: make the directory, clone, fetch and switch to the PR head
RunClone ==
    /\ rpc = "start"
    /\ rpc' = "dispatch"
    /\ feedstock_dir' = {"feedstock_dir", ".git"}
    /\ prev_head' = branch
    /\ rops' = Append(rops, "clone")
    /\ UNCHANGED <<task, requested_version, input_version, version_ret,
                   rerender_ret, task_data,
                   task_data_json, rexit>>
    /\ UNCHANGED <<prVars, finVars, amVars, closed_at, tmVars>>

\* an uncaught exception ends the process where it is: nothing after runs
RunnerCrash(log) ==
    /\ rpc' = "done"
    /\ rexit' = 1
    /\ rops' = log
    /\ UNCHANGED <<feedstock_dir, task_data, task_data_json>>

\* get_git_patch_relative_to_commit: the diff of the tree against prev_head,
\* None when nothing changed
get_git_patch_relative_to_commit(dirty) ==
    IF dirty THEN Val(prev_head) ELSE Null

\* the four values rerender() returns
RerenderReturns ==
    [changed : BOOLEAN, rerender_error : BOOLEAN,
     info_message : InfoMessages, commit_message : RerenderMessages]

\* lines 94-102
RunRerender ==
    /\ rpc = "dispatch"
    /\ task = "rerender"
    /\ \E ret \in RerenderReturns :
        /\ rerender_ret' = Val(ret)
        /\ task_data' = Val([
               task |-> task, sha |-> Sha,
               task_results |-> [
                   changed |-> ret.changed,
                   rerender_error |-> ret.rerender_error,
                   info_message |-> ret.info_message,
                   commit_message |-> ret.commit_message,
                   patch |-> get_git_patch_relative_to_commit(ret.changed)]])
    /\ rops' = rops \o <<"docker_pull", "rerender">>
    /\ rpc' = "write"
    /\ UNCHANGED <<task, requested_version, input_version, version_ret,
                   feedstock_dir, prev_head, task_data_json, rexit>>
    /\ UNCHANGED <<prVars, finVars, amVars, closed_at, tmVars>>

\* lines 104-109: the sentinel "no version requested" values become None
NormalizeVersion(v) ==
    IF Lower(v) = "null" \/ Lower(v) = "none" \/ v = ""
    THEN Null ELSE Val(v)

\* line 129: the f-string renders None as "None"
VersionMessage(new_version) ==
    "ENH: updated version to " \o
        (IF new_version = Null THEN "None" ELSE new_version.v)

CombinedMessageNoStrip(version_msg, commit_message) ==
    version_msg \o " & " \o commit_message

\* lines 139-141: the rerender message without its first len("MNT: ") chars
CombinedMessage(version_msg, commit_message) ==
    version_msg \o " & " \o
        SubSeq(commit_message, Len("MNT: ") + 1, Len(commit_message))

\* the three values update_version() returns
VersionReturns ==
    [version_changed : BOOLEAN, version_error : BOOLEAN,
     new_version : NewVersions]

ChainsRerenderAlways(version_changed) == TRUE

\* line 127: the rerender is chained only after a changed version
ChainsRerender(version_changed) == version_changed

\* lines 122-124
VersionFields(vret) ==
    [version_changed |-> vret.version_changed,
     version_error |-> vret.version_error,
     new_version |-> vret.new_version]

\* lines 125-143: the results after the chained rerender
VersionChangedResults(vret, rret) ==
    VersionFields(vret) @@ [
        patch |-> get_git_patch_relative_to_commit(TRUE),
        commit_message |->
            Val(IF rret.changed
                THEN CombinedMessage(VersionMessage(vret.new_version),
                                     rret.commit_message.v)
                ELSE VersionMessage(vret.new_version)),
        rerender_changed |-> rret.changed,
        rerender_error |-> rret.rerender_error,
        info_message |-> rret.info_message]

VersionUnchangedResultsWithPatch(vret) ==
    VersionFields(vret) @@ [
        patch |-> get_git_patch_relative_to_commit(TRUE),
        commit_message |-> Null,
        rerender_changed |-> FALSE,
        rerender_error |-> FALSE,
        info_message |-> Null]

\* lines 125 and 144-148: the results when the version did not change
VersionUnchangedResults(vret) ==
    VersionFields(vret) @@ [
        patch |-> Null,
        commit_message |-> Null,
        rerender_changed |-> FALSE,
        rerender_error |-> FALSE,
        info_message |-> Null]

\* lines 103-148
RunVersionUpdate ==
    /\ rpc = "dispatch"
    /\ task = "version_update"
    /\ UNCHANGED <<task, requested_version, feedstock_dir, prev_head>>
    /\ UNCHANGED <<prVars, finVars, amVars, closed_at, tmVars>>
    /\ IF requested_version = Null
       THEN \* None.lower() raises AttributeError
            /\ RunnerCrash(rops)
            /\ UNCHANGED <<input_version, version_ret, rerender_ret>>
       ELSE
         /\ input_version' = NormalizeVersion(requested_version.v)
         /\ \E vret \in VersionReturns :
            /\ version_ret' = Val(vret)
            /\ IF ChainsRerender(vret.version_changed)
               THEN \E rret \in RerenderReturns :
                    /\ rerender_ret' = Val(rret)
                    /\ IF rret.changed /\ rret.commit_message = Null
                       THEN \* None[len("MNT: "):] raises TypeError
                            RunnerCrash(rops \o <<"docker_pull",
                                          "update_version", "rerender">>)
                       ELSE
                         /\ task_data' = Val([
                              task |-> task, sha |-> Sha,
                              task_results |->
                                  VersionChangedResults(vret, rret)])
                         /\ rops' = rops \o <<"docker_pull", "update_version",
                                              "rerender">>
                         /\ rpc' = "write"
                         /\ UNCHANGED <<rexit, task_data_json>>
               ELSE
                 /\ task_data' = Val([
                      task |-> task, sha |-> Sha,
                      task_results |-> VersionUnchangedResults(vret)])
                 /\ rops' = rops \o <<"docker_pull", "update_version">>
                 /\ rpc' = "write"
                 /\ UNCHANGED <<rexit, task_data_json, rerender_ret>>

\* line 157: the all-false error map of a two-tuple lint result
SynthesizedErrors(lints, hints) == [key \in lints \cup hints |-> FALSE]

LintResultsErrorLost(raised, lints, hints, errors) ==
    IF raised
    THEN [lint_error |-> FALSE, lints |-> Null, hints |-> Null,
          errors |-> Null]
    ELSE [lint_error |-> FALSE, lints |-> Val(lints), hints |-> Val(hints),
          errors |-> Val(errors)]

\* lines 152-172: what the try/except leaves in task_results
LintResults(raised, lints, hints, errors) ==
    IF raised
    THEN [lint_error |-> TRUE, lints |-> Null, hints |-> Null,
          errors |-> Null]
    ELSE [lint_error |-> FALSE, lints |-> Val(lints), hints |-> Val(hints),
          errors |-> Val(errors)]

\* lines 150-172; lints and hints are kept as the sets of their keys; the
\* lint operation raises, or returns a two-tuple or a three-tuple
RunLint ==
    /\ rpc = "dispatch"
    /\ task = "lint"
    /\ \E raised \in BOOLEAN, lints \in SUBSET Recipes,
          hints \in SUBSET Recipes,
          errors \in ErrorMaps, two \in BOOLEAN :
        /\ raised => (lints = {} /\ hints = {} /\ errors = <<>> /\ two)
        /\ two => errors = <<>>
        /\ task_data' = Val([
             task |-> task, sha |-> Sha,
             task_results |->
               LintResults(raised, lints, hints,
                           IF two THEN SynthesizedErrors(lints, hints)
                           ELSE errors)])
        /\ rops' = rops \o <<"docker_pull", "lint">>
                        \o (IF raised THEN <<"lint_raised">> ELSE <<>>)
    /\ rpc' = "write"
    /\ UNCHANGED <<task, requested_version, input_version, version_ret,
                   rerender_ret, feedstock_dir, prev_head, task_data_json,
                   rexit>>
    /\ UNCHANGED <<prVars, finVars, amVars, closed_at, tmVars>>

RunInvalidTaskPullsFirst ==
    /\ rpc = "dispatch"
    /\ task \notin ValidTasks
    /\ RunnerCrash(rops \o <<"docker_pull">>)
    /\ UNCHANGED <<task, requested_version, input_version, version_ret,
                   rerender_ret, prev_head>>
    /\ UNCHANGED <<prVars, finVars, amVars, closed_at, tmVars>>

\* lines 173-174: any other task raises ValueError
RunInvalidTask ==
    /\ rpc = "dispatch"
    /\ task \notin ValidTasks
    /\ RunnerCrash(rops)
    /\ UNCHANGED <<task, requested_version, input_version, version_ret,
                   rerender_ret, prev_head>>
    /\ UNCHANGED <<prVars, finVars, amVars, closed_at, tmVars>>

\* lines 176-177: json.dump(task_data) to task_data.json
RunWrite ==
    /\ rpc = "write"
    /\ task_data_json' = task_data
    /\ rops' = Append(rops, "write_task_data")
    /\ rpc' = "cleanup"
    /\ UNCHANGED <<task, requested_version, input_version, version_ret,
                   rerender_ret, feedstock_dir,
                   prev_head, task_data, rexit>>
    /\ UNCHANGED <<prVars, finVars, amVars, closed_at, tmVars>>

\* lines 179-188: rm -rf feedstock_dir/.git, then rm -rf feedstock_dir
RunCleanup ==
    /\ rpc = "cleanup"
    /\ feedstock_dir' = {}
    /\ rops' = rops \o <<"rm_git", "rm_dir">>
    /\ rpc' = "done"
    /\ rexit' = 0
    /\ UNCHANGED <<task, requested_version, input_version, version_ret,
                   rerender_ret, prev_head,
                   task_data, task_data_json>>
    /\ UNCHANGED <<prVars, finVars, amVars, closed_at, tmVars>>

Runner ==
    \/ RunClone
    \/ RunRerender
    \/ RunVersionUpdate
    \/ RunLint
    \/ RunInvalidTask
    \/ RunWrite
    \/ RunCleanup


\* =================== the pull request's other actors ====================

\* the contributor pushes a commit to the PR branch
ContributorPush ==
    /\ rpc # "start"
    /\ contribPushes < MaxContribPushes
    /\ contribPushes' = contribPushes + 1
    /\ branch' = Append(branch, "contrib")
    /\ otherChanged' = TRUE
    /\ UNCHANGED <<prState, prTitle, prUser, prDraft, comments, statuses>>
    /\ UNCHANGED <<runnerVars, finVars, amVars, closed_at, tmVars>>

\* somebody closes the PR
OtherClose ==
    /\ rpc # "start"
    /\ prState = "open"
    /\ prState' = "closed"
    /\ otherChanged' = TRUE
    /\ closed_at' = IF pr.state = "open" /\ fpc # "done" THEN Len(ops) ELSE -1
    /\ UNCHANGED <<prTitle, prUser, prDraft, branch, comments, statuses,
                   contribPushes>>
    /\ UNCHANGED <<runnerVars, finVars, amVars, tmVars>>

\* =================== Finalizer: main_finalize_task ======================

\* lines 252-255: the task of the loaded file ("" while there is no file)
FTask == IF task_data_json = Null THEN "" ELSE task_data_json.v.task
sha_for_status == task_data_json.v.sha
Truthy(x) == x # Null /\ x.v # ""

\* an uncaught exception (or sys.exit(1)) ends the run with a non-zero code
FinExit(code) ==
    /\ fpc' = "done"
    /\ fexit' = code

\* lines 252-265: a Finalizer process starts and loads task_data.json
FinLoad ==
    /\ rpc = "done" /\ rexit = 0 /\ task_data_json # Null
    /\ fpc \in {"idle", "done"}
    /\ run < MaxRuns
    /\ run' = run + 1
    /\ fpc' = "fetch"
    /\ task_results' = task_data_json.v.task_results
    /\ pr' = NoPr
    /\ git_repo' = NoRepo
    /\ ops' = <<>>
    /\ pr_title_error' = "unbound"
    /\ comment_push_error' = FALSE
    /\ recipes_to_lint' = {}
    /\ request' = NoRequest
    /\ msg' = Null
    /\ status' = ""
    /\ fexit' = -1
    /\ closed_at' = -1
    /\ UNCHANGED <<runnerVars, prVars, amVars, tmVars>>

ClosedAbortLintOnly(t, state) ==
    t = "lint" /\ state = "closed"

\* lines 273-274
ClosedAbort(t, state) ==
    t \in {"rerender", "version_update", "lint"} /\ state = "closed"

\* lines 269-279: fetch the PR once; a closed PR ends the run normally.
\* The file's task is always one of the three (the Runner writes no file for
\* any other), so the ValueError of lines 484-485 is never raised.
FinFetch ==
    /\ fpc = "fetch"
    /\ pr' = [state |-> prState, title |-> prTitle, user |-> prUser]
    /\ IF ClosedAbort(FTask, prState)
       THEN FinExit(0)
       ELSE /\ fpc' = IF FTask \in {"rerender", "version_update"}
                      THEN "clone" ELSE "lint_scope"
            /\ UNCHANGED fexit
    /\ UNCHANGED <<run, task_results, git_repo, ops, pr_title_error,
                   comment_push_error, recipes_to_lint, request, msg, status>>
    /\ UNCHANGED <<runnerVars, prVars, amVars, closed_at, tmVars>>

DefaultCommitMessage == "chore: conda-forge-webservices update"

\* lines 282-306: default commit message, then the fresh clone
FinClone ==
    /\ fpc = "clone"
    /\ task_results' =
         IF task_results.patch # Null /\ task_results.commit_message = Null
         THEN [task_results EXCEPT !.commit_message = Val(DefaultCommitMessage)]
         ELSE task_results
    /\ git_repo' = [head |-> branch, patched |-> FALSE, committed |-> FALSE]
    /\ ops' = Append(ops, "clone")
    /\ fpc' = "apply"
    /\ UNCHANGED <<run, pr, pr_title_error, comment_push_error,
                   recipes_to_lint, request, msg, status, fexit>>
    /\ UNCHANGED <<runnerVars, prVars, amVars, closed_at, tmVars>>

Range(f) == {f[i] : i \in DOMAIN f}

\* git apply of a diff taken at base on a clone at head: it applies on its
\* base, it does not apply once it has been applied, and on a branch the
\* contributor moved it may or may not apply
ApplyOutcomes(base, head) ==
    IF "bot_patch" \in Range(head) THEN {FALSE}
    ELSE IF "contrib" \in Range(SubSeq(head, Len(base) + 1, Len(head)))
         THEN BOOLEAN
         ELSE {TRUE}

\* lines 307-320: git apply --allow-empty and git add, both check=True
FinApply ==
    /\ fpc = "apply"
    /\ IF task_results.patch # Null
       THEN \E ok \in ApplyOutcomes(task_results.patch.v, git_repo.head) :
              IF ok
              THEN /\ git_repo' = [git_repo EXCEPT !.patched = TRUE]
                   /\ ops' = Append(ops, "apply")
                   /\ fpc' = "commit"
                   /\ UNCHANGED fexit
              ELSE /\ ops' = Append(ops, "apply_failed")
                   /\ FinExit(1)
                   /\ UNCHANGED git_repo
       ELSE /\ fpc' = "commit"
            /\ UNCHANGED <<git_repo, ops, fexit>>
    /\ UNCHANGED <<run, task_results, pr, pr_title_error, comment_push_error,
                   recipes_to_lint, request, msg, status>>
    /\ UNCHANGED <<runnerVars, prVars, amVars, closed_at, tmVars>>

\* lines 322-333: git commit --allow-empty, check=True
FinCommit ==
    /\ fpc = "commit"
    /\ IF task_results.commit_message # Null
       THEN \E ok \in BOOLEAN :
              IF ok
              THEN /\ git_repo' = [git_repo EXCEPT !.committed = TRUE]
                   /\ ops' = Append(ops, "commit")
                   /\ fpc' = "push"
                   /\ UNCHANGED fexit
              ELSE /\ ops' = Append(ops, "commit_failed")
                   /\ FinExit(1)
                   /\ UNCHANGED git_repo
       ELSE /\ fpc' = "push"
            /\ UNCHANGED <<git_repo, ops, fexit>>
    /\ UNCHANGED <<run, task_results, pr, pr_title_error, comment_push_error,
                   recipes_to_lint, request, msg, status>>
    /\ UNCHANGED <<runnerVars, prVars, amVars, closed_at, tmVars>>

\* ---- the push/comment primitive and _push_changes ----

AlwaysCreateComment(cs, body) ==
    Append(cs, [id |-> Len(cs) + 1, body |-> body])

\* the single pipeline comment of the PR is created, or updated in place
UpsertComment(cs, body) ==
    IF cs = <<>>
    THEN <<[id |-> 1, body |-> body]>>
    ELSE [cs EXCEPT ![Len(cs)].body = body]

\* git push of the local clone: refused when the branch moved after the
\* clone, otherwise it may still fail (permissions, transport)
PushOutcomes(changed) ==
    IF ~changed THEN {TRUE}
    ELSE IF branch # git_repo.head THEN {FALSE}
    ELSE BOOLEAN

\* what the pushed local history adds to the branch
LocalCommits ==
    IF git_repo.committed
    THEN <<IF git_repo.patched THEN "bot_patch" ELSE "bot_empty">>
    ELSE <<>>

\* comment_and_push_if_changed: push if changed, one comment, close the PR
\* when asked to and there is neither a change nor an error; push_ok is the
\* outcome of the push
comment_and_push_if_changed(action, changed, error, close, info, push_ok) ==
    /\ request' = [called |-> TRUE, action |-> action, changed |-> changed,
                   error |-> error,
                   close_pr_if_no_changes_or_errors |-> close,
                   info_message |-> info]
    /\ branch' = IF changed /\ push_ok THEN branch \o LocalCommits ELSE branch
    /\ comments' = UpsertComment(comments,
                      [action |-> action, error |-> error,
                       changed |-> changed, push_error |-> ~push_ok,
                       info_message |-> info])
    /\ prState' = IF close /\ ~changed /\ ~error THEN "closed" ELSE prState
    /\ ops' = ops \o (IF changed THEN <<"push">> ELSE <<>>)
                  \o <<"comment">>
                  \o (IF close /\ ~changed /\ ~error
                      THEN <<"close">> ELSE <<>>)

more_info_message == "\nThe following suggestions might help"

\* lines 220-223
InfoWithSuggestions(action_error, info_message) ==
    IF action_error
    THEN Val((IF info_message = Null THEN "" ELSE info_message.v)
             \o more_info_message)
    ELSE info_message

\* lines 191-244: returns action_error or push_error
PushChanges(action, action_error, info_message, changed, close) ==
    \E push_ok \in PushOutcomes(changed) :
        /\ comment_and_push_if_changed(action, changed, action_error, close,
              InfoWithSuggestions(action_error, info_message), push_ok)
        /\ comment_push_error' = (action_error \/ ~push_ok)

\* ---- rerender ----

\* line 348
RerenderClose == FALSE

RerenderStatusAlwaysSuccess(error) == "success"

\* line 350
RerenderStatus(error) == IF ~error THEN "success" ELSE "failure"

RunUrl == "actions/runs/GITHUB_RUN_ID"

FinPushRerenderRechecks ==
    /\ fpc = "push"
    /\ FTask = "rerender"
    /\ IF prState = "closed"
       THEN /\ FinExit(0)
            /\ UNCHANGED <<request, branch, comments, prState, ops,
                           comment_push_error>>
       ELSE /\ PushChanges("rerender", task_results.rerender_error,
                           task_results.info_message, task_results.changed,
                           RerenderClose)
            /\ fpc' = "rr_status"
            /\ UNCHANGED fexit
    /\ UNCHANGED <<run, task_results, pr, git_repo, pr_title_error,
                   recipes_to_lint, msg, status>>
    /\ UNCHANGED <<prTitle, prUser, prDraft, statuses, otherChanged,
                   contribPushes>>
    /\ UNCHANGED <<runnerVars, amVars, closed_at, tmVars>>

\* lines 336-349: the reconciliation works on the pr object fetched at line
\* 269 and never looks at the PR's state again
FinPushRerender ==
    /\ fpc = "push"
    /\ FTask = "rerender"
    /\ PushChanges("rerender", task_results.rerender_error,
                   task_results.info_message, task_results.changed,
                   RerenderClose)
    /\ fpc' = "rr_status"
    /\ UNCHANGED <<run, task_results, pr, git_repo, pr_title_error,
                   recipes_to_lint, msg, status, fexit>>
    /\ UNCHANGED <<prTitle, prUser, prDraft, statuses, otherChanged,
                   contribPushes>>
    /\ UNCHANGED <<runnerVars, amVars, closed_at, tmVars>>

\* lines 350-361
FinStatusRerender ==
    /\ fpc = "rr_status"
    /\ status' = RerenderStatus(comment_push_error)
    /\ statuses' = Append(statuses, [sha |-> sha_for_status,
                                     state |-> status',
                                     target_url |-> RunUrl])
    /\ ops' = Append(ops, "status")
    /\ fpc' = "rr_ready"
    /\ UNCHANGED <<run, task_results, pr, git_repo, pr_title_error,
                   comment_push_error, recipes_to_lint, request, msg, fexit>>
    /\ UNCHANGED <<prState, prTitle, prUser, prDraft, branch, comments,
                   otherChanged, contribPushes>>
    /\ UNCHANGED <<runnerVars, amVars, closed_at, tmVars>>

RerenderReadyAnyAuthor(error, title, login) ==
    (~error) /\ title = "MNT: rerender"

\* lines 364-368
RerenderReady(error, title, login) ==
    (~error) /\ title = "MNT: rerender" /\ login = "conda-forge-admin"

\* lines 363-376: ready-for-review for the bot's own PRs, then the exit
FinReadyRerender ==
    /\ fpc = "rr_ready"
    /\ IF RerenderReady(comment_push_error, pr.title, pr.user)
       THEN /\ prDraft' = FALSE
            /\ ops' = Append(ops, "ready")
       ELSE UNCHANGED <<prDraft, ops>>
    /\ FinExit(IF comment_push_error THEN 1 ELSE 0)
    /\ UNCHANGED <<run, task_results, pr, git_repo, pr_title_error,
                   comment_push_error, recipes_to_lint, request, msg, status>>
    /\ UNCHANGED <<prState, prTitle, prUser, branch, comments, statuses,
                   otherChanged, contribPushes>>
    /\ UNCHANGED <<runnerVars, amVars, closed_at, tmVars>>

\* ---- version_update ----

\* lines 379-383
TitleUpdateWanted(tr) ==
    (~tr.version_error) /\ tr.version_changed /\ Truthy(tr.new_version)

\* update_pr_title: the PR title now encodes the new version
UpdatedTitle(new_version) == "ENH: update to " \o new_version

\* lines 379-392: pr_title_error is only assigned when the update is tried
FinTitle ==
    /\ fpc = "push"
    /\ FTask = "version_update"
    /\ IF TitleUpdateWanted(task_results)
       THEN \E err \in BOOLEAN :
              /\ pr_title_error' = IF err THEN "True" ELSE "False"
              /\ prTitle' = IF err THEN prTitle
                            ELSE UpdatedTitle(task_results.new_version.v)
              /\ ops' = Append(ops, "title")
       ELSE UNCHANGED <<pr_title_error, prTitle, ops>>
    /\ fpc' = "vu_push"
    /\ UNCHANGED <<run, task_results, pr, git_repo, comment_push_error,
                   recipes_to_lint, request, msg, status, fexit>>
    /\ UNCHANGED <<prState, prUser, prDraft, branch, comments, statuses,
                   otherChanged, contribPushes>>
    /\ UNCHANGED <<runnerVars, amVars, closed_at, tmVars>>

VersionActionErrorVersionOnly(tr) == tr.version_error

\* lines 394-404
VersionActionError(tr) ==
    IF tr.version_error THEN TRUE
    ELSE IF tr.version_changed THEN tr.rerender_error
    ELSE FALSE

VersionCloseNever == FALSE

\* line 417
VersionClose == TRUE

\* lines 406-418
FinPushVersion ==
    /\ fpc = "vu_push"
    /\ PushChanges("update the version and rerender",
                   VersionActionError(task_results),
                   task_results.info_message, task_results.version_changed,
                   VersionClose)
    /\ fpc' = "vu_ready"
    /\ UNCHANGED <<run, task_results, pr, git_repo, pr_title_error,
                   recipes_to_lint, msg, status, fexit>>
    /\ UNCHANGED <<prTitle, prUser, prDraft, statuses, otherChanged,
                   contribPushes>>
    /\ UNCHANGED <<runnerVars, amVars, closed_at, tmVars>>

\* line 424: the exit test reads pr_title_error first; unbound, it raises
\* UnboundLocalError, which ends the process with a non-zero code
VersionExitCode(title_error, push_error) ==
    IF title_error = "unbound" THEN 1
    ELSE IF title_error = "True" \/ push_error THEN 1
    ELSE 0

VersionReadyAlways(error) == TRUE

\* line 421
VersionReady(error) == ~error

\* lines 420-431
FinReadyVersion ==
    /\ fpc = "vu_ready"
    /\ IF VersionReady(comment_push_error)
       THEN /\ prDraft' = FALSE
            /\ ops' = Append(ops, "ready")
       ELSE UNCHANGED <<prDraft, ops>>
    /\ FinExit(VersionExitCode(pr_title_error, comment_push_error))
    /\ UNCHANGED <<run, task_results, pr, git_repo, pr_title_error,
                   comment_push_error, recipes_to_lint, request, msg, status>>
    /\ UNCHANGED <<prState, prTitle, prUser, branch, comments, statuses,
                   otherChanged, contribPushes>>
    /\ UNCHANGED <<runnerVars, amVars, closed_at, tmVars>>

\* ---- lint ----

\* dict.get(rec, True)
GetDefaultTrue(errors, rec) ==
    IF rec \in DOMAIN errors THEN errors[rec] ELSE TRUE

AnyErrorUnscoped(errors, recipes) ==
    \E rec \in DOMAIN errors : errors[rec]

\* lines 441-443
AnyScopedError(errors, recipes) ==
    \E rec \in recipes : GetDefaultTrue(errors, rec)

\* get_recipes_for_linting: the recipes of the findings that the live PR
\* touches
RecipeScopes(lints, hints) == SUBSET (lints \cup hints)

\* lines 433-444
FinLintScope ==
    /\ fpc = "lint_scope"
    /\ IF /\ task_results.lints # Null
          /\ task_results.hints # Null
          /\ task_results.errors # Null
       THEN \E scope \in RecipeScopes(task_results.lints.v,
                                      task_results.hints.v) :
              /\ recipes_to_lint' = scope
              /\ task_results' =
                   IF AnyScopedError(task_results.errors.v, scope)
                   THEN [task_results EXCEPT !.lint_error = TRUE]
                   ELSE task_results
       ELSE UNCHANGED <<recipes_to_lint, task_results>>
    /\ fpc' = "lint_comment"
    /\ UNCHANGED <<run, pr, git_repo, ops, pr_title_error,
                   comment_push_error, request, msg, status, fexit>>
    /\ UNCHANGED <<runnerVars, prVars, amVars, closed_at, tmVars>>

\* the statuses build_and_make_lint_comment derives from the findings
LintStatuses == {"good", "mixed", "bad"}

CommentUrl(c) == "comment-" \o ToString(c.id)

\* lines 446-472: the fixed failure comment, or the findings comment
FinLintComment ==
    /\ fpc = "lint_comment"
    /\ \E st \in (IF task_results.lint_error THEN {"bad"} ELSE LintStatuses) :
         /\ status' = st
         /\ comments' = UpsertComment(comments,
               [action |-> "lint", error |-> task_results.lint_error,
                changed |-> FALSE, push_error |-> FALSE,
                info_message |-> Val(st)])
    /\ msg' = Val(comments'[Len(comments')])
    /\ ops' = Append(ops, "comment")
    /\ fpc' = "lint_status"
    /\ UNCHANGED <<run, task_results, pr, git_repo, pr_title_error,
                   comment_push_error, recipes_to_lint, request, fexit>>
    /\ UNCHANGED <<prState, prTitle, prUser, prDraft, branch, statuses,
                   otherChanged, contribPushes>>
    /\ UNCHANGED <<runnerVars, amVars, closed_at, tmVars>>

LintTargetUrlRunLink(m) == RunUrl

\* line 474
LintTargetUrl(m) == CommentUrl(m)

\* lines 474-483
FinLintStatus ==
    /\ fpc = "lint_status"
    /\ statuses' = Append(statuses, [sha |-> sha_for_status,
                                     state |-> status,
                                     target_url |-> LintTargetUrl(msg.v)])
    /\ ops' = Append(ops, "status")
    /\ fpc' = "lint_exit"
    /\ UNCHANGED <<run, task_results, pr, git_repo, pr_title_error,
                   comment_push_error, recipes_to_lint, request, msg, status,
                   fexit>>
    /\ UNCHANGED <<prState, prTitle, prUser, prDraft, branch, comments,
                   otherChanged, contribPushes>>
    /\ UNCHANGED <<runnerVars, amVars, closed_at, tmVars>>

\* lines 478-483
FinLintExit ==
    /\ fpc = "lint_exit"
    /\ FinExit(IF task_results.lint_error THEN 1 ELSE 0)
    /\ UNCHANGED <<run, task_results, pr, git_repo, ops, pr_title_error,
                   comment_push_error, recipes_to_lint, request, msg, status>>
    /\ UNCHANGED <<runnerVars, prVars, amVars, closed_at, tmVars>>

Finalizer ==
    \/ FinLoad
    \/ FinFetch
    \/ FinClone
    \/ FinApply
    \/ FinCommit
    \/ FinPushRerender
    \/ FinStatusRerender
    \/ FinReadyRerender
    \/ FinTitle
    \/ FinPushVersion
    \/ FinReadyVersion
    \/ FinLintScope
    \/ FinLintComment
    \/ FinLintStatus
    \/ FinLintExit

Others ==
    \/ ContributorPush
    \/ OtherClose

Next == Runner \/ Finalizer \/ Others

Spec == Init /\ [][Next]_vars

\* ==================== Automerge trigger: main_automerge =================

\* the open PRs of the repository: PR number 100 + i has head sha seq[i]
OpenPulls ==
    UNION {[1..n -> HeadShas] : n \in 0..MaxPulls}
PullNumber(i) == 100 + i

\* an automerge run for Sha starts; the pipeline is not part of it
InitAutomerge ==
    /\ PipelineInit /\ task = "lint"
    /\ TmIdle
    /\ apc = "start"
    /\ pulls \in OpenPulls
    /\ am_i = 0
    /\ found_pr = FALSE
    /\ pr_for_admin = 0
    /\ am_ops = <<>>
    /\ merges = <<>>
    /\ warned = FALSE
    /\ aexit = -1

\* lines 500-504: the default session, the repository, the PR listing
AmList ==
    /\ apc = "start"
    /\ am_ops' = am_ops \o <<"create_api_sessions", "get_repo", "get_pulls">>
    /\ am_i' = 1
    /\ apc' = "loop"
    /\ UNCHANGED <<pulls, found_pr, pr_for_admin, merges, warned, aexit>>
    /\ UNCHANGED <<runnerVars, prVars, finVars, closed_at, tmVars>>

ShaMatchesAlways(head_sha, sha) == TRUE

\* line 505
ShaMatches(head_sha, sha) == head_sha = sha

\* lines 504-505: the next PR of the listing
AmCheck ==
    /\ apc = "loop"
    /\ am_i <= Len(pulls)
    /\ IF ShaMatches(pulls[am_i], Sha)
       THEN /\ apc' = "admin"
            /\ UNCHANGED am_i
       ELSE /\ am_i' = am_i + 1
            /\ UNCHANGED apc
    /\ UNCHANGED <<pulls, found_pr, pr_for_admin, am_ops, merges, warned,
                   aexit>>
    /\ UNCHANGED <<runnerVars, prVars, finVars, closed_at, tmVars>>

AdminPullFirst(i) == PullNumber(1)

\* line 508: gh_repo_for_admin.get_pull(pr.number)
AdminPull(i) == PullNumber(i)

\* lines 506-508: the admin session and its handle of the same PR
AmAdmin ==
    /\ apc = "admin"
    /\ am_ops' = am_ops \o <<"create_api_sessions_for_admin",
                             "admin_get_repo", "admin_get_pull">>
    /\ pr_for_admin' = AdminPull(am_i)
    /\ apc' = "merge"
    /\ UNCHANGED <<pulls, am_i, found_pr, merges, warned, aexit>>
    /\ UNCHANGED <<runnerVars, prVars, finVars, closed_at, tmVars>>

\* lines 509-510: automerge_pr(gh_repo, pr, pr_for_admin); it merges or not
AmMerge ==
    /\ apc = "merge"
    /\ \E merged \in BOOLEAN :
         merges' = Append(merges, [pr |-> PullNumber(am_i),
                                   head_sha |-> pulls[am_i],
                                   pr_for_admin |-> pr_for_admin,
                                   merged |-> merged])
    /\ found_pr' = TRUE
    /\ am_i' = am_i + 1
    /\ apc' = "loop"
    /\ UNCHANGED <<pulls, pr_for_admin, am_ops, warned, aexit>>
    /\ UNCHANGED <<runnerVars, prVars, finVars, closed_at, tmVars>>

\* lines 512-518: the warning when nothing matched; the command returns
AmFinish ==
    /\ apc = "loop"
    /\ am_i > Len(pulls)
    /\ warned' = ~found_pr
    /\ aexit' = 0
    /\ apc' = "done"
    /\ UNCHANGED <<pulls, am_i, found_pr, pr_for_admin, am_ops, merges>>
    /\ UNCHANGED <<runnerVars, prVars, finVars, closed_at, tmVars>>

NextAutomerge ==
    \/ AmList
    \/ AmCheck
    \/ AmAdmin
    \/ AmMerge
    \/ AmFinish

SpecAutomerge == InitAutomerge /\ [][NextAutomerge]_vars

\* ===================== team update: update_team ========================

MaxExtraSections == 2
RepoNames == {"numpy-feedstock", "Core-feedstock", "help-r-feedstock",
              "help-feedstock", "staged-recipes",
              "bot-feedstock-feedstock", "systems-feedstock"}
Commits == {Null, Val(""), Val(Sha)}
Members == {"alice", "bob"}
\* the order in which a member set is listed
MemberOrder == <<"alice", "bob">>
RecipeFiles == {"recipe/meta.yaml", "recipe/recipe.yaml", "none"}

\* str.endswith, str.startswith
EndsWith(s, suffix) ==
    Len(s) >= Len(suffix)
        /\ SubSeq(s, Len(s) - Len(suffix) + 1, Len(s)) = suffix
StartsWith(s, prefix) ==
    Len(s) >= Len(prefix) /\ SubSeq(s, 1, Len(prefix)) = prefix

\* str.replace(old, new): every occurrence, left to right
RECURSIVE Replace(_, _, _)
Replace(s, old, new) ==
    IF Len(s) < Len(old) THEN s
    ELSE IF StartsWith(s, old)
         THEN new \o Replace(SubSeq(s, Len(old) + 1, Len(s)), old, new)
         ELSE SubSeq(s, 1, 1) \o Replace(SubSeq(s, 2, Len(s)), old, new)

UpperCase == "ABCDEFGHIJKLMNOPQRSTUVWXYZ"
LowerCase == "abcdefghijklmnopqrstuvwxyz"
LowerChar(c) ==
    IF \E i \in 1..Len(UpperCase) : SubSeq(UpperCase, i, i) = c
    THEN LET i == CHOOSE i \in 1..Len(UpperCase) : SubSeq(UpperCase, i, i) = c
         IN SubSeq(LowerCase, i, i)
    ELSE c

\* str.lower() of a repository name
RECURSIVE StrLower(_)
StrLower(s) ==
    IF s = "" THEN ""
    ELSE LowerChar(SubSeq(s, 1, 1)) \o StrLower(SubSeq(s, 2, Len(s)))

TeamNameNoLower(repo) == Replace(repo, "-feedstock", "")

\* line 82
TeamName(repo) == StrLower(Replace(repo, "-feedstock", ""))

\* lines 83-89
ReservedTeam(name) ==
    name \in {"core", "bot", "staged-recipes", "arm-arch", "systems"}
        \/ StartsWith(name, "help-")

\* no update_team call but this one
InitTeams ==
    /\ PipelineInit /\ task = "lint"
    /\ AmIdle
    /\ tpc = "start"
    /\ repo_name \in RepoNames
    /\ commit \in Commits
    /\ team_name = ""
    /\ recipe_file = ""
    /\ skip = 0
    /\ configured = <<>>
    /\ maintainers = NoMaintainers
    /\ filter_out = {}
    /\ t_ops = <<>>
    /\ t_comments = <<>>
    /\ texit = -1

TeamExit(code) ==
    /\ tpc' = "done"
    /\ texit' = code

\* lines 79-90: the two early returns
TeamCheck ==
    /\ tpc = "start"
    /\ IF ~EndsWith(repo_name, "-feedstock")
       THEN TeamExit(0) /\ UNCHANGED team_name
       ELSE /\ team_name' = TeamName(repo_name)
            /\ IF ReservedTeam(team_name')
               THEN TeamExit(0)
               ELSE tpc' = "client" /\ UNCHANGED texit
    /\ UNCHANGED <<repo_name, commit, recipe_file, skip, configured,
                   maintainers, filter_out, t_ops, t_comments>>
    /\ UNCHANGED <<runnerVars, prVars, finVars, amVars, closed_at>>

\* lines 92-94
TeamClient ==
    /\ tpc = "client"
    /\ t_ops' = t_ops \o <<"get_gh_client", "get_organization", "get_repo">>
    /\ tpc' = "recipe"
    /\ UNCHANGED <<repo_name, commit, team_name, recipe_file, skip,
                   configured, maintainers, filter_out, t_comments, texit>>
    /\ UNCHANGED <<runnerVars, prVars, finVars, amVars, closed_at>>

\* lines 57-63: meta.yaml, else recipe.yaml; the second miss is not caught
get_recipe_contents(file) ==
    IF file = "recipe/meta.yaml"
    THEN <<"get_contents:recipe/meta.yaml">>
    ELSE <<"get_contents:recipe/meta.yaml", "get_contents:recipe/recipe.yaml">>

\* lines 96-97 with 57-75: the recipe the repository holds and the number of
\* its "extra:" lines; a missing recipe raises, and so does the assert of
\* line 74 when that number is not 1
TeamRecipe ==
    /\ tpc = "recipe"
    /\ \E file \in RecipeFiles, n \in 0..MaxExtraSections :
         /\ t_ops' = t_ops \o get_recipe_contents(file)
         /\ recipe_file' = file
         /\ IF file = "none"
            THEN TeamExit(1) /\ UNCHANGED skip
            ELSE /\ skip' = n
                 /\ IF n = 1
                    THEN tpc' = "configure" /\ UNCHANGED texit
                    ELSE TeamExit(1)
    /\ UNCHANGED <<repo_name, commit, team_name, configured, maintainers,
                   filter_out, t_comments>>
    /\ UNCHANGED <<runnerVars, prVars, finVars, amVars, closed_at>>

\* what configure_github_team can return: the recipe's maintainers, the
\* team's members before the call, and those of the newly added members
\* who were invited to the organization
MaintainerReturns ==
    {[current_maintainers |-> c, prev_maintainers |-> p,
      new_conda_forge_members |-> n] :
        c \in SUBSET Members, p \in SUBSET Members, n \in SUBSET Members}

\* lines 99-109: the team is reconfigured under the name without .lower()
TeamConfigure ==
    /\ tpc = "configure"
    /\ configured' = Append(configured, Replace(repo_name, "-feedstock", ""))
    /\ \E ret \in MaintainerReturns :
         /\ ret.new_conda_forge_members
               \subseteq (ret.current_maintainers \ ret.prev_maintainers)
         /\ maintainers' = ret
    /\ tpc' = "comment"
    /\ UNCHANGED <<repo_name, commit, team_name, recipe_file, skip,
                   filter_out, t_ops, t_comments, texit>>
    /\ UNCHANGED <<runnerVars, prVars, finVars, amVars, closed_at>>

\* lines 38-40, on the listing order
filter_members(members, out) ==
    SelectSeq(MemberOrder, LAMBDA m : m \in members /\ m \notin out)

RECURSIVE JoinComma(_)
JoinComma(seq) ==
    IF seq = <<>> THEN ""
    ELSE IF Len(seq) = 1 THEN seq[1]
    ELSE seq[1] \o ", " \o JoinComma(Tail(seq))

\* lines 43-45
get_handles(members, out) ==
    JoinComma([i \in DOMAIN filter_members(members, out) |->
                  "@" \o filter_members(members, out)[i]])

\* lines 26-35: the three teams whose members are never greeted
FilterTeams == <<"staged-recipes", "help-r", "r">>
get_filter_out_members ==
    <<"filter:get_organization">>
        \o [i \in DOMAIN FilterTeams |->
               "filter:get_team_by_slug:" \o FilterTeams[i]]

\* lines 111-151: get_filter_out_members is cached, so both get_handles
\* calls filter with the same set
TeamComment ==
    /\ tpc = "comment"
    /\ IF Truthy(commit)
       THEN \E out \in SUBSET Members :
              LET newm == get_handles(maintainers.new_conda_forge_members,
                                      out)
                  addm == get_handles(
                             (maintainers.current_maintainers
                                 \ maintainers.prev_maintainers)
                                 \ maintainers.new_conda_forge_members, out)
              IN /\ filter_out' = out
                 /\ IF addm # "" \/ newm # ""
                    THEN /\ t_ops' = t_ops \o get_filter_out_members
                                           \o <<"get_commit">>
                         /\ t_comments' = Append(t_comments,
                               [commit |-> commit.v, newm |-> newm,
                                addm |-> addm])
                    ELSE /\ t_ops' = t_ops \o get_filter_out_members
                         /\ UNCHANGED t_comments
       ELSE UNCHANGED <<filter_out, t_ops, t_comments>>
    /\ TeamExit(0)
    /\ UNCHANGED <<repo_name, commit, team_name, recipe_file, skip,
                   configured, maintainers>>
    /\ UNCHANGED <<runnerVars, prVars, finVars, amVars, closed_at>>

NextTeams ==
    \/ TeamCheck
    \/ TeamClient
    \/ TeamRecipe
    \/ TeamConfigure
    \/ TeamComment

SpecTeams == InitTeams /\ [][NextTeams]_vars

\* ============================== properties ==============================

Count(seq, x) == Cardinality({i \in DOMAIN seq : seq[i] = x})
First(seq, x) == CHOOSE i \in DOMAIN seq : seq[i] = x /\ \A j \in 1..(i-1) : seq[j] # x
LastStatus == statuses[Len(statuses)]
LastComment == comments[Len(comments)]
OpenRun == pr.state = "open"
FileResults == task_data_json.v.task_results

\* C1: a run that fetched a closed PR has returned with exit code 0 and has
\* performed no clone, apply, commit, push, comment, status, title update,
\* close or ready-for-review operation.
C1_ClosedPrNoMutation ==
    (fpc \notin {"idle", "fetch"} /\ pr.state = "closed") =>
        (fpc = "done" /\ fexit = 0 /\ ops = <<>> /\ ~request.called)

C1_Witness ==
    fpc = "done" /\ pr.state = "closed" /\ fexit = 0
        /\ FTask = "version_update"

\* C2: with a false change flag and a false combined action error, the run
\* pushes nothing; a version_update asks for the PR to be closed and a
\* rerender never does.
C2_NoChangeNoPush ==
    request.called =>
        /\ (FTask = "rerender" =>
              /\ ~request.close_pr_if_no_changes_or_errors
              /\ "close" \notin Range(ops))
        /\ (/\ FTask = "rerender"
            /\ ~task_results.changed
            /\ ~task_results.rerender_error) =>
              /\ ~request.changed
              /\ "push" \notin Range(ops)
              /\ Range(branch) \subseteq {"contrib"}
        /\ (/\ FTask = "version_update"
            /\ ~task_results.version_changed
            /\ ~request.error) =>
              /\ ~request.changed
              /\ "push" \notin Range(ops)
              /\ Range(branch) \subseteq {"contrib"}
              /\ request.close_pr_if_no_changes_or_errors
              /\ "close" \in Range(ops)
              /\ prState = "closed"

C2_Witness ==
    /\ request.called
    /\ FTask = "version_update"
    /\ ~task_results.version_changed
    /\ ~request.error
    /\ "close" \in Range(ops)

\* C3: a rerender run that reached reconciliation and has ended set exactly
\* one commit status, on the Task Result's sha and after the comment; it is
\* "failure" exactly when rerender_error or the push error is true, and the
\* exit code is non-zero exactly then.
C3_RerenderStatus ==
    (FTask = "rerender" /\ request.called /\ fpc = "done") =>
        LET failed == task_results.rerender_error
                        \/ LastComment.body.push_error
        IN /\ Count(ops, "status") = 1
           /\ First(ops, "comment") < First(ops, "status")
           /\ LastStatus.sha = Sha
           /\ LastStatus.state = (IF failed THEN "failure" ELSE "success")
           /\ (fexit # 0) <=> (LastStatus.state = "failure")

C3_Witness ==
    /\ FTask = "rerender" /\ request.called /\ fpc = "done"
    /\ ~task_results.rerender_error
    /\ LastStatus.state = "failure"
    /\ fexit = 1

\* C4: a version_update run on an open PR that reached reconciliation ends
\* with a non-zero exit code exactly when the title update or the
\* push/comment step reported an error.
C4_VersionExit ==
    (FTask = "version_update" /\ OpenRun /\ request.called /\ fpc = "done") =>
        ((fexit # 0) <=> (pr_title_error = "True" \/ comment_push_error))

\* C5 as stated: the lint is errored exactly when an in-scope recipe has a
\* true entry in the errors mapping.
C5_TrueEntryOnly ==
    (/\ FTask = "lint" /\ OpenRun
     /\ fpc \in {"lint_comment", "lint_status", "lint_exit", "done"}
     /\ FileResults.errors # Null
     /\ ~FileResults.lint_error) =>
        (task_results.lint_error <=>
            \E rec \in recipes_to_lint :
                rec \in DOMAIN FileResults.errors.v
                    /\ FileResults.errors.v[rec])

\* C5 amended: the lint is errored exactly when an in-scope recipe has a
\* true entry, or no entry at all, in the errors mapping; entries of recipes
\* outside the scope do not matter, and the run ends non-zero exactly then.
C5_ScopedLintError ==
    (/\ FTask = "lint" /\ OpenRun
     /\ fpc \in {"lint_comment", "lint_status", "lint_exit", "done"}
     /\ FileResults.errors # Null
     /\ ~FileResults.lint_error) =>
        /\ task_results.lint_error <=>
            \E rec \in recipes_to_lint :
                rec \notin DOMAIN FileResults.errors.v
                    \/ FileResults.errors.v[rec]
        /\ fpc = "done" => ((fexit # 0) <=> task_results.lint_error)

C5_Witness ==
    /\ FTask = "lint" /\ OpenRun /\ fpc = "done"
    /\ FileResults.errors # Null
    /\ "a" \in DOMAIN FileResults.errors.v
    /\ FileResults.errors.v["a"]
    /\ recipes_to_lint = {"b"}
    /\ fexit = 0

\* C6: a lint run on an open PR makes one comment, then sets one commit
\* status on the Task Result's sha whose target_url is that comment's URL;
\* an errored lint has status "bad" and exits non-zero, after the status.
C6_LintCommentThenStatus ==
    (FTask = "lint" /\ OpenRun /\ fpc = "done") =>
        /\ ops = <<"comment", "status">>
        /\ LastStatus = [sha |-> Sha, state |-> status,
                         target_url |-> CommentUrl(LastComment)]
        /\ task_results.lint_error => (status = "bad" /\ fexit = 1)
        /\ fexit \in {0, 1}

C6_Witness ==
    /\ FTask = "lint" /\ OpenRun /\ fpc = "done"
    /\ task_results.lint_error /\ fexit = 1
    /\ LastStatus.state = "bad"

\* C7: when nobody else changes the PR, any number of Finalizer runs on the
\* same Task Result leave at most one pipeline comment, and after a run
\* that commented the comment shows that run's outcome.
C7_OneComment ==
    ~otherChanged =>
        /\ Len(comments) <= 1
        /\ (fpc = "done" /\ "comment" \in Range(ops)) =>
              IF FTask = "lint"
              THEN LastComment.body.error = task_results.lint_error
              ELSE /\ LastComment.body.action = request.action
                   /\ LastComment.body.error = request.error
                   /\ LastComment.body.changed = request.changed

C7_Witness ==
    /\ ~otherChanged /\ run = 2 /\ fpc = "done"
    /\ "comment" \in Range(ops)
    /\ Len(comments) = 1

\* C8: a rerender run whose patch did not apply, or whose commit failed,
\* still comments and sets a "failure" status before it exits non-zero.
C8_PatchFailureStillReports ==
    (/\ FTask = "rerender" /\ fpc = "done"
     /\ ("apply_failed" \in Range(ops) \/ "commit_failed" \in Range(ops))) =>
        /\ "comment" \in Range(ops)
        /\ "status" \in Range(ops)
        /\ statuses # <<>> /\ LastStatus.state = "failure"
        /\ fexit # 0

\* C9: when the Runner has ended, its working directory and the .git
\* directory in it are gone.
C9_NoSandboxResidue ==
    rpc = "done" => feedstock_dir = {}

\* C10: for a task that is not rerender, version_update or lint the Runner
\* ends with an error, writes no Task Result, pulls no image and calls no
\* tool operation.
C10_InvalidTaskAborts ==
    task \notin ValidTasks =>
        /\ task_data_json = Null
        /\ Range(rops) \subseteq {"clone"}
        /\ rpc = "done" => rexit # 0

C10_Witness ==
    task = "bogus" /\ rpc = "done" /\ rexit = 1 /\ rops = <<"clone">>

RunnerResults == task_data.v.task_results
RunnerPast == rpc \notin {"start", "dispatch"}

\* C11: a lint Runner never ends with an error; when the lint operation
\* raised, the Task Result has lint_error true and lints, hints and errors
\* null; when it returned, lint_error is false; the file is then written.
C11_LintNeverCrashes ==
    (task = "lint" /\ RunnerPast) =>
        /\ rexit \in {-1, 0}
        /\ task_data # Null
        /\ "lint_raised" \in Range(rops) =>
              /\ RunnerResults.lint_error
              /\ RunnerResults.lints = Null
              /\ RunnerResults.hints = Null
              /\ RunnerResults.errors = Null
        /\ "lint_raised" \notin Range(rops) => ~RunnerResults.lint_error
        /\ rpc = "done" => (rexit = 0 /\ task_data_json = task_data)

C11_Witness ==
    /\ task = "lint" /\ rpc = "done" /\ rexit = 0
    /\ "lint_raised" \in Range(rops)
    /\ task_data_json # Null
    /\ task_data_json.v.task_results.lint_error

\* a string without the given prefix, when it starts with it
StripPrefix(str, prefix) ==
    IF Len(str) >= Len(prefix) /\ SubSeq(str, 1, Len(prefix)) = prefix
    THEN SubSeq(str, Len(prefix) + 1, Len(str))
    ELSE str

Rendered(x) == IF x = Null THEN "None" ELSE x.v

\* C12: after a changed version, the Task Result's commit_message is
\* "ENH: updated version to <new_version>", followed, when the chained
\* rerender changed content, by " & " and the rerender message without its
\* "MNT: " prefix.
C12_CombinedCommitMessage ==
    (/\ task = "version_update" /\ task_data # Null
     /\ version_ret.v.version_changed) =>
        LET vmsg == "ENH: updated version to "
                        \o Rendered(version_ret.v.new_version)
        IN RunnerResults.commit_message =
             Val(IF rerender_ret.v.changed
                 THEN vmsg \o " & "
                        \o StripPrefix(rerender_ret.v.commit_message.v,
                                       "MNT: ")
                 ELSE vmsg)

C12_Witness ==
    /\ task = "version_update" /\ rpc = "done" /\ task_data_json # Null
    /\ rerender_ret # Null /\ rerender_ret.v.changed
    /\ task_data_json.v.task_results.commit_message =
           Val("ENH: updated version to 2.0 & rerender")

NoVersionRequested ==
    {Null, Val(""), Val("null"), Val("NULL"), Val("none"), Val("None")}

\* C15: a version_update Runner calls update_version, with input_version
\* None for every "no version requested" input (option omitted, empty,
\* null/none in any case) and with the given string otherwise.
C15_VersionNormalized ==
    (task = "version_update" /\ RunnerPast) =>
        /\ "update_version" \in Range(rops)
        /\ input_version = (IF requested_version \in NoVersionRequested
                            THEN Null ELSE requested_version)

\* C16: the action error a version_update run passes to reconciliation is
\* version_error OR (version_changed AND rerender_error).
C16_VersionActionError ==
    (FTask = "version_update" /\ request.called) =>
        request.error =
            (task_results.version_error
                \/ (task_results.version_changed
                        /\ task_results.rerender_error))

C16_Witness ==
    /\ FTask = "version_update" /\ request.called
    /\ ~task_results.version_error
    /\ task_results.version_changed /\ task_results.rerender_error
    /\ request.error

\* C17: a rerender run that reached reconciliation marks the PR ready for
\* review exactly when neither rerender_error nor the push error is true,
\* the title is "MNT: rerender" and the author is conda-forge-admin, and
\* does so after setting the commit status.
C17_RerenderReady ==
    (FTask = "rerender" /\ request.called /\ fpc = "done") =>
        /\ ("ready" \in Range(ops)) <=>
              /\ ~(task_results.rerender_error
                      \/ LastComment.body.push_error)
              /\ pr.title = "MNT: rerender"
              /\ pr.user = "conda-forge-admin"
        /\ "ready" \in Range(ops) =>
              /\ First(ops, "status") < First(ops, "ready")
              /\ ~prDraft

C17_Witness ==
    /\ FTask = "rerender" /\ request.called /\ fpc = "done"
    /\ "ready" \in Range(ops)
    /\ ~prDraft

\* C18: a version_update run on an open PR that reached reconciliation
\* marks the PR ready for review exactly when neither the action error nor
\* the push error is true, whatever the title update did.
C18_VersionReady ==
    (FTask = "version_update" /\ OpenRun /\ request.called /\ fpc = "done") =>
        (("ready" \in Range(ops)) <=>
            ~(request.error \/ LastComment.body.push_error))

C18_Witness ==
    /\ FTask = "version_update" /\ OpenRun /\ request.called /\ fpc = "done"
    /\ pr_title_error = "True"
    /\ "ready" \in Range(ops)
    /\ ~prDraft

\* C19: a rerender or version_update run on an open PR makes at most one
\* local commit, and exactly one when the Task Result has a patch or a
\* commit message.
C19_OneCommit ==
    (FTask \in {"rerender", "version_update"} /\ OpenRun /\ fpc = "done") =>
        /\ Count(ops, "commit") <= 1
        /\ (FileResults.patch # Null \/ FileResults.commit_message # Null)
              => Count(ops, "commit") = 1

\* C20: a version_update Runner calls rerender once when update_version
\* reported a changed version and never otherwise; with an unchanged
\* version the Task Result has rerender_changed and rerender_error false
\* and info_message, commit_message and patch null.
C20_NoRerenderOnUnchanged ==
    (task = "version_update" /\ version_ret # Null) =>
        /\ Count(rops, "rerender") =
              (IF version_ret.v.version_changed THEN 1 ELSE 0)
        /\ (rerender_ret # Null) <=> version_ret.v.version_changed
        /\ ~version_ret.v.version_changed =>
              /\ task_data # Null
              /\ ~RunnerResults.version_changed
              /\ ~RunnerResults.rerender_changed
              /\ ~RunnerResults.rerender_error
              /\ RunnerResults.info_message = Null
              /\ RunnerResults.commit_message = Null
              /\ RunnerResults.patch = Null

C20_Witness ==
    /\ task = "version_update" /\ rpc = "done" /\ rexit = 0
    /\ version_ret # Null /\ ~version_ret.v.version_changed
    /\ "rerender" \notin Range(rops)
    /\ task_data_json # Null
    /\ task_data_json.v.task_results.commit_message = Null

NoPullMatches == \A i \in DOMAIN pulls : pulls[i] # Sha

\* C14: when no open PR has the given sha as head, automerge creates no
\* admin session and calls no merge at any time, and it ends with the
\* warning, exit code 0 and only the repository lookup and the PR listing.
C14_NoMatchNoMerge ==
    (apc # "idle" /\ NoPullMatches) =>
        /\ "create_api_sessions_for_admin" \notin Range(am_ops)
        /\ merges = <<>>
        /\ apc = "done" =>
              /\ warned
              /\ aexit = 0
              /\ am_ops = <<"create_api_sessions", "get_repo", "get_pulls">>

C14_Witness ==
    /\ apc = "done" /\ NoPullMatches /\ Len(pulls) >= 2
    /\ warned /\ aexit = 0

\* the PRs of the listing the loop has reached so far
Reached == {i \in DOMAIN pulls : i <= am_i}

\* C21: automerge_pr is called only for listed PRs whose head is the given
\* sha, each time with the admin session's handle of that same PR number,
\* and an admin session is created only once a matching PR has been found.
C21_MergeOnlyMatching ==
    /\ \A k \in DOMAIN merges :
          /\ merges[k].head_sha = Sha
          /\ \E i \in DOMAIN pulls :
                pulls[i] = Sha /\ merges[k].pr = PullNumber(i)
          /\ merges[k].pr_for_admin = merges[k].pr
    /\ "create_api_sessions_for_admin" \in Range(am_ops) =>
          \E i \in Reached : pulls[i] = Sha
    /\ Count(am_ops, "create_api_sessions_for_admin")
          = Len(merges) + (IF apc = "merge" THEN 1 ELSE 0)

C21_Witness ==
    /\ apc = "done" /\ Len(merges) = 2
    /\ \E i \in DOMAIN pulls : pulls[i] # Sha
    /\ merges[2].pr = PullNumber(3)

\* the current run saw the PR open and somebody closed it afterwards
ClosedAfterCheck == closed_at >= 0
SubprocessFailed ==
    "apply_failed" \in Range(ops) \/ "commit_failed" \in Range(ops)

\* C22: the PR's state is read once per run, at the fetch: when somebody
\* closes the PR after that, the run keeps its stale "open" and a run whose
\* git steps succeeded still pushes (when there is a change), comments, sets
\* its status and marks the PR ready exactly as on an open PR.
C22_StaleStateRead ==
    ClosedAfterCheck =>
        /\ pr.state = "open" /\ prState = "closed"
        /\ (fpc = "done" /\ ~SubprocessFailed) =>
              /\ Count(ops, "comment") = 1
              /\ FTask \in {"rerender", "version_update"} =>
                    /\ request.called
                    /\ request.changed <=> "push" \in Range(ops)
              /\ FTask \in {"rerender", "lint"} => Count(ops, "status") = 1
              /\ FTask = "rerender" =>
                    ("ready" \in Range(ops) <=>
                        RerenderReady(comment_push_error, pr.title, pr.user))
              /\ FTask = "version_update" =>
                    ("ready" \in Range(ops) <=>
                        VersionReady(comment_push_error))

\* the PR was closed before the push of a rerender run that then pushed,
\* commented, set the status and marked the closed PR ready for review
C22_Witness ==
    /\ FTask = "rerender" /\ fpc = "done" /\ ClosedAfterCheck
    /\ prState = "closed"
    /\ "push" \in Range(ops) /\ closed_at < First(ops, "push")
    /\ "comment" \in Range(ops) /\ "status" \in Range(ops)
    /\ "ready" \in Range(ops) /\ ~prDraft
    /\ "bot_patch" \in Range(branch)

\* the repositories update_team leaves alone
SkippedRepos == {"Core-feedstock", "help-r-feedstock", "staged-recipes",
                 "bot-feedstock-feedstock", "systems-feedstock"}
\* the added members who are in none of the three filtered teams
Greeted ==
    (maintainers.current_maintainers \ maintainers.prev_maintainers)
        \ filter_out

\* C23 as stated: a call for any other repository that has ended has
\* reconfigured the team exactly once.
C23_AlwaysReconfigures ==
    (tpc = "done" /\ repo_name \notin SkippedRepos) => Len(configured) = 1

\* C23: for a repository that is no feedstock or whose team is reserved,
\* update_team makes no forge call, reconfigures nothing and comments
\* nothing; for any other it reconfigures the team exactly once when the
\* recipe exists and has exactly one "extra:" line and raises before any
\* reconfiguration otherwise; it posts at most one commit comment, only
\* after the reconfiguration, only for a non-empty commit and only when an
\* added member remains after filtering.
C23_TeamUpdate ==
    /\ (tpc = "done" /\ repo_name \in SkippedRepos) =>
          /\ t_ops = <<>> /\ configured = <<>> /\ t_comments = <<>>
          /\ texit = 0
    /\ (tpc = "done" /\ repo_name \notin SkippedRepos) =>
          IF recipe_file # "none" /\ skip = 1
          THEN /\ texit = 0
               /\ configured = <<Replace(repo_name, "-feedstock", "")>>
          ELSE texit = 1 /\ configured = <<>> /\ t_comments = <<>>
    /\ Len(configured) <= 1 /\ Len(t_comments) <= 1
    /\ t_comments # <<>> =>
          /\ Len(configured) = 1
          /\ commit # Null /\ commit.v # ""
          /\ t_comments[1].commit = commit.v
          /\ Greeted # {}
          /\ Count(t_ops, "get_commit") = 1

C23_Witness ==
    /\ tpc = "done" /\ texit = 0
    /\ repo_name = "numpy-feedstock"
    /\ Len(configured) = 1
    /\ Len(t_comments) = 1
    /\ filter_out = {"alice"}
    /\ t_comments[1].addm = "@bob"
====
